---- MODULE Spec2Model ----
(***************************************************************************)
(* Model of src/table.rs of click: cell specifications (CellSpec), the     *)
(* optional row filter built from the "regex" command line option          *)
(* (get_regex, filter) and the table builder (add_to_table).               *)
(*                                                                         *)
(* Text is a sequence of one-character strings, so that formatting         *)
(* (format!) and matching (Regex::is_match) are computed, not assumed.     *)
(* Option<T> is None or Some(v); Result<T, E> is Ok(v) or Err(m).          *)
(***************************************************************************)
EXTENDS Integers, Sequences, FiniteSets, TLC

---------------------------------------------------------------------------
(* Bounds of the model *)

\* longest pattern string drawn for get_regex
MaxPatLen == 3
\* largest row position drawn for a direct call of to_cell
MaxIndex == 11
\* most rows handed to the pipeline
MaxRows == 3

---------------------------------------------------------------------------
(* Option and Result *)

None == [tag |-> "None"]
Some(v) == [tag |-> "Some", val |-> v]
Ok(v) == [tag |-> "Ok", val |-> v]
Err(m) == [tag |-> "Err", msg |-> m]

\* all sequences over S of length at most n
SeqsUpTo(S, n) == UNION {[1..k -> S] : k \in 0..n}

---------------------------------------------------------------------------
(* The regex crate, as far as table.rs uses it.  The pattern language drawn  *)
(* here has literals, "." (any character) and the group brackets; a pattern *)
(* whose groups do not close does not compile.                              *)

RECURSIVE GroupsClose(_, _)
GroupsClose(pattern, depth) ==
    IF pattern = <<>> THEN depth = 0
    ELSE IF Head(pattern) = "(" THEN GroupsClose(Tail(pattern), depth + 1)
    ELSE IF Head(pattern) = ")" THEN depth > 0 /\ GroupsClose(Tail(pattern), depth - 1)
    ELSE GroupsClose(Tail(pattern), depth)

\* Regex::new(pattern): the compiled program (the atoms to match in a row)
\* or a compile error
Regex_new(pattern) ==
    IF GroupsClose(pattern, 0)
    THEN Ok([atoms |-> SelectSeq(pattern, LAMBDA c : c \notin {"(", ")"})])
    ELSE Err(<<"u", "n", "c", "l", "o", "s", "e", "d">>)

\* regex.is_match(text): the pattern matches somewhere in text (unanchored)
is_match(regex, text) ==
    \E start \in 0..(Len(text) - Len(regex.atoms)) :
        \A k \in 1..Len(regex.atoms) :
            regex.atoms[k] = "." \/ regex.atoms[k] = text[start + k]

---------------------------------------------------------------------------
(* prettytable cells, as far as table.rs uses them *)

\* Cell::new(text): the text, no style attribute, left aligned
Cell_new(text) == [content |-> text, style |-> <<>>, align |-> "LEFT"]

RECURSIVE SpecAlign(_, _)
SpecAlign(spec, align) ==
    IF spec = <<>> THEN align
    ELSE SpecAlign(Tail(spec),
                   CASE Head(spec) = "c" -> "CENTER"
                     [] Head(spec) = "l" -> "LEFT"
                     [] Head(spec) = "r" -> "RIGHT"
                     [] OTHER -> align)

\* cell.style_spec(spec): the style is reset, then each character of the
\* spec sets an attribute (b, i, u) or the alignment (c, l, r)
style_spec(cell, spec) ==
    [content |-> cell.content,
     style |-> SelectSeq(spec, LAMBDA c : c \in {"b", "i", "u"}),
     align |-> SpecAlign(spec, "LEFT")]

---------------------------------------------------------------------------
(* CellSpecTxt and CellSpec *)

Index == [tag |-> "Index"]
Str(s) == [tag |-> "Str", s |-> s]
String(s) == [tag |-> "String", s |-> s]

new(txt) == [txt |-> Str(txt), style |-> None, align |-> None]
new_owned(txt) == [txt |-> String(txt), style |-> None, align |-> None]
new_index == [txt |-> Index, style |-> None, align |-> None]
with_style(txt, style) == [txt |-> Str(txt), style |-> Some(style), align |-> None]
with_style_owned(txt, style) == [txt |-> String(txt), style |-> Some(style), align |-> None]

Digit(d) == <<"0", "1", "2", "3", "4", "5", "6", "7", "8", "9">>[d + 1]

\* format!("{}", index): the decimal digits of index
RECURSIVE Decimal(_)
Decimal(n) == IF n < 10 THEN <<Digit(n)>> ELSE Decimal(n \div 10) \o <<Digit(n % 10)>>

\* a to_cell that also renders the stored text of a text cell through the
\* row position when the text is empty
to_cell_blank_as_index(self, index) ==
    LET text == IF self.txt.tag = "Index" \/ self.txt.s = <<>> THEN Decimal(index)
                ELSE self.txt.s
        cell == Cell_new(text)
    IN  IF self.style.tag = "Some" THEN style_spec(cell, self.style.val) ELSE cell

to_cell(self, index) ==
    LET cell == CASE self.txt.tag = "Index" -> Cell_new(Decimal(index))
                  [] self.txt.tag = "Str" -> Cell_new(self.txt.s)
                  [] self.txt.tag = "String" -> Cell_new(self.txt.s)
    IN  IF self.style.tag = "Some" THEN style_spec(cell, self.style.val) ELSE cell

\* a matches that looks for the pattern in an index cell as in an empty text
matches_index_as_text(self, regex) ==
    IF self.txt.tag = "Index" THEN is_match(regex, <<>>) ELSE is_match(regex, self.txt.s)

\* a matches that never matches a styled cell
matches_plain_only(self, regex) ==
    self.txt.tag # "Index" /\ self.style = None /\ is_match(regex, self.txt.s)

matches(self, regex) ==
    CASE self.txt.tag = "Index" -> FALSE
      [] self.txt.tag = "Str" -> is_match(regex, self.txt.s)
      [] self.txt.tag = "String" -> is_match(regex, self.txt.s)

---------------------------------------------------------------------------
(* get_regex, filter, add_to_table *)

InvalidRegexPrefix ==
    <<"I", "n", "v", "a", "l", "i", "d", " ", "r", "e", "g", "e", "x", ":", " ">>

\* a get_regex whose error message leaves the pattern out
get_regex_bare_message(value_of_regex) ==
    IF value_of_regex.tag = "Some"
    THEN IF Regex_new(value_of_regex.val).tag = "Ok"
         THEN Ok(Some(Regex_new(value_of_regex.val).val))
         ELSE Err(InvalidRegexPrefix)
    ELSE Ok(None)

\* a get_regex that takes a pattern that does not compile for no pattern
get_regex_ignore_invalid(value_of_regex) ==
    IF value_of_regex.tag = "Some" /\ Regex_new(value_of_regex.val).tag = "Ok"
    THEN Ok(Some(Regex_new(value_of_regex.val).val))
    ELSE Ok(None)

\* a get_regex that takes no pattern for the empty pattern
get_regex_default_empty(value_of_regex) ==
    LET pattern == IF value_of_regex.tag = "Some" THEN value_of_regex.val ELSE <<>>
    IN  IF Regex_new(pattern).tag = "Ok"
        THEN Ok(Some(Regex_new(pattern).val))
        ELSE Err(InvalidRegexPrefix \o pattern)

\* value_of_regex is matches.value_of("regex")
get_regex(value_of_regex) ==
    IF value_of_regex.tag = "Some"
    THEN LET pattern == value_of_regex.val
         IN  IF Regex_new(pattern).tag = "Ok"
             THEN Ok(Some(Regex_new(pattern).val))
             ELSE Err(InvalidRegexPrefix \o pattern)
    ELSE Ok(None)

\* a has_match loop without the guard: the last cell decides
RECURSIVE has_match_last_cell(_, _, _)
has_match_last_cell(cells, regex, acc) ==
    IF cells = <<>> THEN acc
    ELSE has_match_last_cell(Tail(cells), regex, matches(Head(cells), regex))

\* the loop of filter over the cells of one thing; acc is has_match so far
RECURSIVE has_match(_, _, _)
has_match(cells, regex, acc) ==
    IF cells = <<>> THEN acc
    ELSE has_match(Tail(cells), regex,
                   IF ~acc THEN matches(Head(cells), regex) ELSE acc)

RECURSIVE filter(_, _)
filter(things, regex) ==
    IF things = <<>> THEN <<>>
    ELSE LET thing == Head(things)
         IN  IF has_match(thing[2], regex, FALSE)
             THEN <<thing>> \o filter(Tail(things), regex)
             ELSE filter(Tail(things), regex)

\* the rows add_to_table builds, the first at position first
Rows(specs, first) ==
    [k \in 1..Len(specs) |->
        [j \in 1..Len(specs[k][2]) |-> to_cell(specs[k][2][j], first + k - 1)]]

\* an add_to_table that numbers the rows by their place in the table
add_to_table_table_position(table, specs) == table \o Rows(specs, Len(table))

\* an add_to_table that leaves out a row without cells
add_to_table_skip_empty(table, specs) ==
    table \o SelectSeq(Rows(specs, 0), LAMBDA row : row # <<>>)

add_to_table(table, specs) == table \o Rows(specs, 0)

---------------------------------------------------------------------------
(* Inputs *)

a == <<"a">>
b == <<"b">>
zero == <<"0">>

\* the characters of the pattern strings drawn for get_regex
PatternChars == {"a", "0", ".", "("}
PatternStrings == SeqsUpTo(PatternChars, MaxPatLen)

\* the "regex" option of the runs of the whole pipeline
PipelinePatterns == {<<>>, a, zero, <<"(">>}

\* the things handed to the pipeline: a payload and its cell specs
ThingPool ==
    { <<"p", <<>>>>,
      <<"q", <<new_index>>>>,
      <<"p", <<new_index, new(a), new_owned(b)>>>>,
      <<"q", <<new_index, new(a), new_owned(b)>>>>,
      <<"p", <<new_owned(b), with_style(zero, <<"c">>)>>>>,
      <<"q", <<new(<<>>)>>>> }

\* the table as the caller hands it over: empty, or with a row in it
TablePool == { <<>>, << <<Cell_new(<<"#">>), Cell_new(<<"n">>)>> >> }

\* the cell specs of the direct calls of to_cell and matches
Texts == {<<>>, a, zero, <<"a", "b">>}
Styles == {None, Some(<<"b">>), Some(<<"c">>), Some(<<"b", "r">>)}
Aligns == {None, Some("CENTER"), Some("RIGHT")}
CellSpecs ==
    [txt : {Index} \cup {Str(s) : s \in Texts} \cup {String(s) : s \in Texts},
     style : Styles, align : Aligns]
CellPatterns == {<<>>, a, zero, <<".">>, <<"(", "b", ")">>}

---------------------------------------------------------------------------
(* State *)

VARIABLES
    pc,        \* where the pipeline is: start, compiled, failed, filtered, done
    opt,       \* matches.value_of("regex")
    res,       \* what get_regex returned, None before it ran
    things,    \* the rows built by the caller
    filtered,  \* the rows after the filter stage, None before it ran
    table0,    \* the table as handed to add_to_table
    table,     \* the table
    cs,        \* the cell spec of a direct call
    index,     \* the position of the last direct to_cell, None before
    cell,      \* what to_cell returned
    regex,     \* the pattern of the last direct matches, None before
    hit        \* what matches returned

vars == <<pc, opt, res, things, filtered, table0, table, cs, index, cell, regex, hit>>
pipeVars == <<pc, opt, res, things, filtered, table0, table>>
cellVars == <<cs, index, cell, regex, hit>>

NoCall ==
    /\ cs = new_index
    /\ index = None /\ cell = None /\ regex = None /\ hit = None

NoRun ==
    /\ pc = "start" /\ res = None /\ filtered = None

\* a run of the pipeline: the option, the rows and the table are the caller's
Init ==
    /\ NoRun /\ NoCall
    /\ opt \in {None} \cup {Some(p) : p \in PipelinePatterns}
    /\ things \in SeqsUpTo(ThingPool, MaxRows)
    /\ table0 \in TablePool
    /\ table = table0

\* a call of get_regex alone
InitRegex ==
    /\ NoRun /\ NoCall
    /\ opt \in {None} \cup {Some(p) : p \in PatternStrings}
    /\ things = <<>>
    /\ table0 = <<>>
    /\ table = table0

\* calls of to_cell and matches on one cell spec
InitCell ==
    /\ NoRun
    /\ opt = None /\ things = <<>> /\ table0 = <<>> /\ table = <<>>
    /\ cs \in CellSpecs
    /\ index = None /\ cell = None /\ regex = None /\ hit = None

---------------------------------------------------------------------------
(* The pipeline: compile the pattern, filter the rows, build the table *)

GetRegex ==
    /\ pc = "start"
    /\ res' = Some(get_regex(opt))
    /\ pc' = IF get_regex(opt).tag = "Ok" THEN "compiled" ELSE "failed"
    /\ UNCHANGED <<opt, things, filtered, table0, table, cellVars>>

\* the caller's filter stage: filter is called when there is a pattern
FilterStage(rows, pattern) ==
    IF pattern.tag = "Some" THEN filter(rows, pattern.val) ELSE rows

Filter ==
    /\ pc = "compiled"
    /\ filtered' = Some(FilterStage(things, res.val.val))
    /\ pc' = "filtered"
    /\ UNCHANGED <<opt, res, things, table0, table, cellVars>>

Build ==
    /\ pc = "filtered"
    /\ table' = add_to_table(table, filtered.val)
    /\ pc' = "done"
    /\ UNCHANGED <<opt, res, things, filtered, table0, cellVars>>

ToCell ==
    \E i \in 0..MaxIndex :
        /\ index' = Some(i)
        /\ cell' = Some(to_cell(cs, i))
        /\ UNCHANGED <<pipeVars, cs, regex, hit>>

Matches ==
    \E p \in CellPatterns :
        /\ regex' = Some(Regex_new(p).val)
        /\ hit' = Some(matches(cs, Regex_new(p).val))
        /\ UNCHANGED <<pipeVars, cs, index, cell>>

Next == GetRegex \/ Filter \/ Build
NextRegex == GetRegex
NextCell == ToCell \/ Matches

Spec == Init /\ [][Next]_vars
SpecRegex == InitRegex /\ [][NextRegex]_vars
SpecCell == InitCell /\ [][NextCell]_vars

---------------------------------------------------------------------------
(* Properties *)

FilterRan == pc \in {"filtered", "done"}
\* the Option<Regex> get_regex returned, once it returned Ok
Pattern == res.val.val
Cells(thing) == thing[2]
\* the k-th smallest element of a set of numbers
Nth(S, k) == CHOOSE i \in S : Cardinality({h \in S : h < i}) = k - 1
\* the number a string of decimal digits denotes
RECURSIVE DigitsValue(_)
DigitsValue(digits) ==
    IF digits = <<>> THEN 0
    ELSE 10 * DigitsValue(SubSeq(digits, 1, Len(digits) - 1))
         + (CHOOSE d \in 0..9 : Digit(d) = digits[Len(digits)])
IsDecimalOf(text, n) ==
    /\ Len(text) >= 1
    /\ \A k \in 1..Len(text) : \E d \in 0..9 : Digit(d) = text[k]
    /\ Len(text) > 1 => text[1] # "0"
    /\ DigitsValue(text) = n

\* C1: filter(rows, pattern) is exactly the rows with at least one matching
\* cell (the plain disjunction over all cells), in their original order,
\* each with its payload and cell list unchanged.
C1_FilterKeepsExactlyMatchingRows ==
    (FilterRan /\ Pattern.tag = "Some") =>
        LET matching == {i \in 1..Len(things) :
                            \E j \in 1..Len(Cells(things[i])) :
                                matches(Cells(things[i])[j], Pattern.val)}
        IN  /\ Len(filtered.val) = Cardinality(matching)
            /\ \A k \in 1..Len(filtered.val) :
                   filtered.val[k] = things[Nth(matching, k)]

\* three rows of which the first and the last are kept, the first for a
\* matching cell that is followed by a cell that does not match
C1_Witness ==
    /\ pc = "filtered" /\ Pattern.tag = "Some"
    /\ Len(things) = 3
    /\ filtered.val = <<things[1], things[3]>>
    /\ things[1] # things[3]
    /\ \E j \in 1..(Len(Cells(things[1])) - 1) :
           /\ matches(Cells(things[1])[j], Pattern.val)
           /\ ~matches(Cells(things[1])[j + 1], Pattern.val)

\* C2: get_regex returns Ok(None) for no option, Ok(Some(compiled)) for a
\* pattern that compiles, and Err("Invalid regex: " + pattern) for one that
\* does not; an invalid pattern never gives Ok.
C2_GetRegexThreeOutcomes ==
    res # None =>
        /\ opt = None => res.val = Ok(None)
        /\ (opt.tag = "Some" /\ GroupsClose(opt.val, 0)) =>
               /\ res.val.tag = "Ok"
               /\ res.val.val = Some(Regex_new(opt.val).val)
        /\ (opt.tag = "Some" /\ ~GroupsClose(opt.val, 0)) =>
               /\ res.val.tag = "Err"
               /\ res.val.msg = InvalidRegexPrefix \o opt.val
               /\ SubSeq(res.val.msg, Len(res.val.msg) - Len(opt.val) + 1,
                         Len(res.val.msg)) = opt.val

\* the pattern a(0 was rejected with its message
C2_Witness ==
    /\ opt = Some(<<"a", "(", "0">>)
    /\ res # None
    /\ res.val = Err(InvalidRegexPrefix \o <<"a", "(", "0">>)

\* C3: the index cells of the k-th row built from the filtered rows show
\* k - 1, whatever the row's position before the filter and however many
\* rows the table held.
C3_IndicesDenseFromZero ==
    pc = "done" =>
        /\ Len(table) >= Len(table0) + Len(filtered.val)
        /\ \A k \in 1..Len(filtered.val) :
               \A j \in 1..Len(Cells(filtered.val[k])) :
                   Cells(filtered.val[k])[j].txt = Index =>
                       /\ Len(table[Len(table0) + k]) >= j
                       /\ IsDecimalOf(table[Len(table0) + k][j].content, k - 1)

\* of three rows the second was dropped, and the third shows 1 in a table
\* that already held a row
C3_Witness ==
    /\ pc = "done" /\ Pattern.tag = "Some"
    /\ table0 # <<>>
    /\ Len(things) = 3
    /\ filtered.val = <<things[1], things[3]>>
    /\ Cells(things[1])[1].txt = Index
    /\ Cells(things[3])[1].txt = Index
    /\ table[Len(table0) + 1][1].content = <<"0">>
    /\ table[Len(table0) + 2][1].content = <<"1">>

\* C4: an index cell matches no pattern, so a filtered row always has a text
\* cell: rows without cells and rows of index cells only are dropped.
C4_RowsWithoutTextAreDropped ==
    (FilterRan /\ Pattern.tag = "Some") =>
        /\ \A i \in 1..Len(things) : \A j \in 1..Len(Cells(things[i])) :
               Cells(things[i])[j].txt = Index =>
                   ~matches(Cells(things[i])[j], Pattern.val)
        /\ \A k \in 1..Len(filtered.val) :
               \E j \in 1..Len(Cells(filtered.val[k])) :
                   Cells(filtered.val[k])[j].txt # Index

\* under the empty pattern, which matches any text, a row without cells and
\* a row of one index cell were dropped and a third row was kept
C4_Witness ==
    /\ pc = "filtered" /\ Pattern.tag = "Some"
    /\ is_match(Pattern.val, <<>>)
    /\ is_match(Pattern.val, <<"0">>)
    /\ Len(things) = 3
    /\ Cells(things[1]) = <<>>
    /\ Cells(things[2]) = <<new_index>>
    /\ filtered.val = <<things[3]>>

\* C5: the text of the cell to_cell returns is the decimal string of the
\* position for an index cell, and the stored string for a text cell,
\* whatever the position.
C5_ToCellText ==
    cell # None =>
        IF cs.txt.tag = "Index"
        THEN IsDecimalOf(cell.val.content, index.val)
        ELSE cell.val.content = cs.txt.s

\* an index cell rendered at position 10
C5_Witness ==
    /\ cs.txt = Index
    /\ index = Some(10)
    /\ cell # None
    /\ cell.val.content = <<"1", "0">>

\* C6: the cell to_cell returns carries the alignment of the spec when
\* there is one, the style of the spec when there is one, and only its text
\* when there is neither.
C6_ToCellCarriesStyleAndAlign ==
    cell # None =>
        /\ cs.align.tag = "Some" => cell.val.align = cs.align.val
        /\ cs.style.tag = "Some" =>
               cell.val.style = SelectSeq(cs.style.val, LAMBDA c : c \in {"b", "i", "u"})
        /\ (cs.align = None /\ cs.style = None) =>
               cell.val = Cell_new(IF cs.txt.tag = "Index"
                                   THEN Decimal(index.val) ELSE cs.txt.s)

C9_StyleAlignDoNotAffectMatching ==
    hit # None =>
        \A s \in Styles, al \in Aligns :
            LET other == [cs EXCEPT !.style = s, !.align = al]
            IN  /\ matches(other, regex.val) = hit.val
                /\ (filter(<< <<"p", <<other>>>> >>, regex.val) # <<>>) = hit.val
                /\ (filter(<< <<"p", <<cs>>>> >>, regex.val) # <<>>) = hit.val

\* a styled and aligned text cell matched
C9_Witness ==
    /\ hit = Some(TRUE)
    /\ cs.style # None
    /\ cs.align # None
    /\ cs.txt.tag = "String"

\* C10: add_to_table appends one row per input row, in order, each with one
\* cell per cell spec in order; the rows the table held stay in place and
\* the input is as the filter stage left it.
C10_AppendOnlyOneToOne ==
    pc = "done" =>
        /\ Len(table) = Len(table0) + Len(filtered.val)
        /\ SubSeq(table, 1, Len(table0)) = table0
        /\ \A k \in 1..Len(filtered.val) :
               LET row == table[Len(table0) + k]
                   specs == Cells(filtered.val[k])
               IN  /\ Len(row) = Len(specs)
                   /\ \A j \in 1..Len(specs) : row[j] = to_cell(specs[j], k - 1)
        /\ filtered.val = FilterStage(things, Pattern)

\* three rows were appended to a table that held one: two equal rows one
\* after the other and a row without cells
C10_Witness ==
    /\ pc = "done"
    /\ table0 # <<>>
    /\ Len(filtered.val) = 3
    /\ Len(table) = 4
    /\ table[2] = table[3]
    /\ table[2] # <<>>
    /\ table[4] = <<>>

====
